---- MODULE Spec2Model ----
(***************************************************************************)
(* Model of the sampark mail-ingestion pipeline:                           *)
(*   EmailClient.check_new_emails / _parse_email / _extract_thread_id      *)
(*   EmailMonitor (_check_emails, start, stop)                             *)
(*   EmailService.process_new_email / reply_to_email                       *)
(*   process_email_callback (the callback __main__ registers)              *)
(*                                                                         *)
(* Strings are modelled as sequences of tokens: a message id or an address *)
(* is one token, a subject, a References header and a thread id are        *)
(* sequences of tokens.                                                    *)
(*                                                                         *)
(* A coroutine is cut at its awaits: one action is the synchronous code    *)
(* that follows an await together with the database / SMTP operation of    *)
(* the next await.  The database is SQLite (db/database.py:29): a writer   *)
(* holds the write lock from its INSERT to its commit, so an INSERT and    *)
(* the commit that follows it are one action, and a reader sees committed  *)
(* rows only.                                                              *)
(***************************************************************************)
EXTENDS Integers, Sequences, FiniteSets, TLC

(* ---------------- bounds of the model ---------------- *)
\* number of coroutine slots: loop tasks / concurrent callers
MaxTasks == 2
\* number of messages the environment puts into the mailbox
MaxDeliver == 3
\* number of message ids make_msgid hands out
MaxReplies == 2
\* number of database faults the environment injects
MaxFaults == 1
\* number of start() and of stop() calls
MaxStarts == 2
MaxStops == 2
\* mailbox deliveries in the monitor specification
MaxDeliverMon == 2
\* calls made by callers outside the poll loop
MaxCalls == 3
\* message ids in a References header
MaxRefs == 2
\* pieces a Subject header is put together from
MaxPieces == 3
\* parts of a multipart message
MaxParts == 3

Tasks == 1..MaxTasks

(* ---------------- values ---------------- *)
\* EmailClient.username: the login and the From address of the system
OWN == "sys@x"
\* a None entry of a recipient list
NULL == "<None>"
\* an email_data dictionary without the key "recipients"
ABSENT == <<"<no key>">>
NoThread == [id |-> <<>>, thread_id |-> <<>>, subject |-> <<>>, participants |-> {}, updated_at |-> 0]
NoData == [message_id |-> "", in_reply_to |-> "", references |-> <<>>, subject |-> <<>>,
           sender |-> "", recipients |-> <<>>, thread_id |-> <<>>]
NoMessage == [id |-> 0, message_id |-> "", thread |-> <<>>, sender |-> "", recipients |-> <<>>,
              subject |-> <<>>, in_reply_to |-> "", references |-> <<>>,
              is_sent_by_system |-> FALSE]

\* the raw messages the environment can put into the mailbox
RawMails ==
  << [mid |-> "m1", refs |-> <<>>, irt |-> "", subject |-> <<"Hi">>,
      from |-> "alice@x", to |-> <<"bob@x">>, ok |-> TRUE],
     [mid |-> "m2", refs |-> <<"m1">>, irt |-> "m1", subject |-> <<"Re:", "Hi">>,
      from |-> "bob@x", to |-> <<"alice@x", "carol@x">>, ok |-> TRUE],
     [mid |-> "m3", refs |-> <<"m1", "m2">>, irt |-> "m2", subject |-> <<"Re:", "Hi">>,
      from |-> "alice@x", to |-> <<"bob@x">>, ok |-> TRUE],
     [mid |-> "m4", refs |-> <<>>, irt |-> "", subject |-> <<"Hi">>,
      from |-> OWN, to |-> <<"alice@x">>, ok |-> TRUE],
     [mid |-> "m5", refs |-> <<>>, irt |-> "", subject |-> <<>>,
      from |-> "", to |-> <<>>, ok |-> FALSE] >>

ReplyPrefixes == {"Re:", "RE:", "re:", "Fwd:", "FWD:", "fwd:", "Re[2]:", "Fwd[2]:"}

(* ---------------- EmailClient: parsing ---------------- *)
\* re.sub(r'(?i)^(re|fwd)(\[\d+\])?:\s*', '', subject): one leading prefix
CleanSubject(subject) ==
  LET s == IF subject # <<>> /\ Head(subject) \in ReplyPrefixes THEN Tail(subject) ELSE subject
  IN  IF s = <<>> THEN <<"No Subject">> ELSE s

ExtractThreadId(raw) ==
  IF raw.refs # <<>> THEN <<raw.refs[1]>>
  ELSE IF raw.irt # "" THEN <<raw.irt>>
  ELSE CleanSubject(raw.subject) \o <<"_", raw.from>>

\* the recipients comprehension keeps the non-empty items of the To header
ParseEmail(raw) ==
  [message_id |-> raw.mid, in_reply_to |-> raw.irt, references |-> raw.refs,
   subject |-> raw.subject, sender |-> raw.from,
   recipients |-> SelectSeq(raw.to, LAMBDA a : a # ""),
   thread_id |-> ExtractThreadId(raw)]

\* the email_data dictionaries a caller can hand to process_new_email
EmailData ==
  { ParseEmail(RawMails[i]) : i \in {j \in DOMAIN RawMails : RawMails[j].ok} }
  \cup { [message_id |-> "m6", in_reply_to |-> "", references |-> <<>>, subject |-> <<"Hi">>,
          sender |-> "carol@x", recipients |-> <<"bob@x", NULL>>,
          thread_id |-> <<"Hi", "_", "carol@x">>],
         [message_id |-> "m7", in_reply_to |-> "", references |-> <<>>, subject |-> <<"Hi">>,
          sender |-> "dave@x", recipients |-> <<>>,
          thread_id |-> <<"Hi", "_", "dave@x">>],
         [message_id |-> "m8", in_reply_to |-> "", references |-> <<>>,
          subject |-> <<"Re:", "Hi">>,
          sender |-> "carol@x", recipients |-> <<"", "dave@x">>,
          thread_id |-> <<"Hi", "_", "carol@x">>],
         [message_id |-> "m9", in_reply_to |-> "", references |-> <<>>, subject |-> <<"Hi">>,
          sender |-> "carol@x", recipients |-> ABSENT,
          thread_id |-> <<"Hi", "_", "carol@x">>] }

ReplyIds == <<"r1", "r2", "r3", "r4">>

(* ---------------- state ---------------- *)
VARIABLES
  threads,      \* rows of email_threads (committed)
  messages,     \* rows of email_messages (committed)
  wpc,          \* position of the unit of work of each coroutine slot
  wdata,        \* its email_data
  wthr,         \* the EmailThread its session has loaded
  worig,        \* the original EmailMessage reply_to_email has loaded
  wreply,       \* the (reply_id, references) send_email returned
  wret,         \* what process_new_email returned in this slot
  rret,         \* what reply_to_email returned in this slot
  replyCalls,   \* reply_to_email calls made by process_email_callback, per message id
  nextReply,    \* message ids make_msgid has handed out
  outbox,       \* the replies the SMTP server has accepted
  faults,       \* database faults injected so far
  unseen,       \* the UNSEEN messages of the mailbox, oldest first
  delivered,    \* messages put into the mailbox so far
  fetched,      \* messages check_new_emails has fetched and parsed so far
  returned,     \* message ids check_new_emails has returned so far
  storeCalls,   \* STORE +FLAGS \Seen commands sent so far
  running,      \* EmailMonitor._running
  task,         \* EmailMonitor._task (0 is None)
  nextTask,     \* loop tasks created so far
  lpc,          \* position of each _check_emails task
  batch,        \* new_emails still to hand to the callbacks, per task
  spc,          \* position of each stop() call
  sawait,       \* the task a stop() call awaits
  starts,       \* start() calls so far
  stops,        \* stop() calls so far
  calls,        \* calls made from outside the poll loop so far
  cpc,          \* position of the EmailClient call under study
  cmsg,         \* the headers of the message _extract_thread_id is given
  ckey,         \* the thread id _extract_thread_id returned
  sargs,        \* the in_reply_to and references arguments of send_email
  shdr,         \* the References header send_email has set
  attempts,     \* _send_smtp attempts made by the send_email call
  sendret,      \* what send_email returned
  cmail,        \* the message whose body _parse_email extracts
  cbody         \* the body_text and body_html it has extracted

storeVars == <<threads, messages>>
workVars == <<wpc, wdata, wthr, worig, wreply, wret, rret, replyCalls, nextReply, outbox, faults>>
boxVars == <<unseen, delivered, fetched, returned, storeCalls>>
monVars == <<running, task, nextTask, lpc, batch, spc, sawait, starts, stops>>
clientVars == <<cpc, cmsg, ckey, sargs, shdr, attempts, sendret, cmail, cbody>>
vars == <<storeVars, workVars, boxVars, monVars, calls, clientVars>>


(* ---------------- EmailService: queries ---------------- *)
\* select(EmailMessage).where(message_id == ...).scalar_one_or_none()
GetMessageByMessageId(mid) ==
  IF \E m \in messages : m.message_id = mid
  THEN CHOOSE m \in messages : m.message_id = mid
  ELSE NoMessage

\* select(EmailThread).where(thread_id == ...).scalar_one_or_none()
GetThreadByThreadId(key) ==
  IF \E t \in threads : t.thread_id = key
  THEN CHOOSE t \in threads : t.thread_id = key
  ELSE NoThread

\* json.loads(thread.participants), read as a set
GetParticipants(thread) == thread.participants

\* email_data.get("recipients", [])
RecipientsOrEmpty(data) == IF data.recipients = ABSENT THEN <<>> ELSE data.recipients

\* (a merge that adds every entry of the list, None and "" included)
MergedParticipants_KeepAll(thread, data) ==
  GetParticipants(thread)
    \cup (IF data.sender # "" THEN {data.sender} ELSE {})
    \cup { RecipientsOrEmpty(data)[i] : i \in DOMAIN RecipientsOrEmpty(data) }

\* sender and recipients merged into the participants (None and "" skipped)
MergedParticipants(thread, data) ==
  GetParticipants(thread)
    \cup (IF data.sender # "" THEN {data.sender} ELSE {})
    \cup { RecipientsOrEmpty(data)[i] : i \in {j \in DOMAIN RecipientsOrEmpty(data) :
                                               RecipientsOrEmpty(data)[j] \notin {NULL, ""}} }

\* (a join that accepts every list)
JoinFails_Never(recipients) == FALSE

\* message_data["recipients"] raises KeyError when the key is missing and
\* ", ".join(recipients) raises TypeError on a None entry
JoinFails(recipients) ==
  recipients = ABSENT \/ \E i \in DOMAIN recipients : recipients[i] = NULL

\* str(ULID()): a primary key no other row has.  Rows are told apart by
\* their unique column and a serial number among the rows that share it.
NewMessagePk(mid) == Cardinality({m \in messages : m.message_id = mid}) + 1
NewThreadPk(key) == <<key, Cardinality({t \in threads : t.thread_id = key}) + 1>>

\* the row _save_email_message builds
MessageRow(pk, data, threadPk, sentBySystem) ==
  [id |-> pk, message_id |-> data.message_id, thread |-> threadPk, sender |-> data.sender,
   recipients |-> data.recipients, subject |-> data.subject,
   in_reply_to |-> data.in_reply_to, references |-> data.references,
   is_sent_by_system |-> sentBySystem]

\* (a save that replaces the stored message the new one replies to)
Insert_ReplaceOriginal(row) == {m \in messages : m.message_id # row.in_reply_to} \cup {row}

\* db_session.add(message) and commit: one INSERT into email_messages
Insert(row) == messages \cup {row}

\* (a table without the unique index: every INSERT is accepted)
MessageIdTaken_NoIndex(mid) == FALSE

\* the unique index on email_messages.message_id
MessageIdTaken(mid) == \E m \in messages : m.message_id = mid

\* the unique index on email_threads.thread_id
ThreadKeyTaken(key) == \E t \in threads : t.thread_id = key

(* ---------------- end of a unit of work ---------------- *)
\* the callback of slot w has ended: the session is closed and the slot is idle
Finish(w) ==
  /\ wpc' = [wpc EXCEPT ![w] = "idle"]
  /\ wthr' = [wthr EXCEPT ![w] = NoThread]
  /\ worig' = [worig EXCEPT ![w] = NoMessage]
  /\ wreply' = [wreply EXCEPT ![w] = ""]

\* (a callback that replies whatever process_new_email returned)
CallbackReplies_Always(ret) == TRUE

\* process_email_callback, line 32: "if message:" decides whether a reply is
\* sent.  "skipped" and "failed" are both the return value None: they differ
\* in the line process_new_email logs.
CallbackReplies(ret) == ret = "msg"

\* process_new_email ends with ret in slot w: an exception leaves the
\* callback, a Message makes it await reply_to_email, None makes it return
Return(w, ret) ==
  /\ wret' = [wret EXCEPT ![w] = ret]
  /\ IF ret # "raised" /\ CallbackReplies(ret)
     THEN /\ replyCalls' = [replyCalls EXCEPT ![wdata[w].message_id] = @ + 1]
          /\ wpc' = [wpc EXCEPT ![w] = "rte_lookup"]
          /\ wthr' = [wthr EXCEPT ![w] = NoThread]
          /\ UNCHANGED <<worig, wreply>>
     ELSE /\ Finish(w)
          /\ UNCHANGED replyCalls

(* ---------------- EmailService.process_new_email ---------------- *)
\* a caller (the poll loop or anyone else) awaits process_email_callback(d)
BeginCallback(w, d) ==
  /\ wpc' = [wpc EXCEPT ![w] = "pne_exists"]
  /\ wdata' = [wdata EXCEPT ![w] = d]
  /\ wret' = [wret EXCEPT ![w] = "pending"]
  /\ rret' = [rret EXCEPT ![w] = "pending"]
  /\ UNCHANGED <<wthr, worig, wreply, replyCalls, nextReply, outbox, faults>>

\* (a service that never looks for the stored message)
AlreadyProcessed_Never(data) == FALSE

\* lines 150-151: existing_message is not None
AlreadyProcessed(data) == GetMessageByMessageId(data.message_id) # NoMessage

\* lines 149-153: the idempotency check
PneExists(w) ==
  /\ wpc[w] = "pne_exists"
  /\ IF AlreadyProcessed(wdata[w])
     THEN Return(w, "skipped")
     ELSE /\ wpc' = [wpc EXCEPT ![w] = "pne_thread"]
          /\ UNCHANGED <<wret, wthr, worig, wreply, replyCalls>>
  /\ UNCHANGED <<wdata, rret, nextReply, outbox, faults>>
  /\ UNCHANGED <<storeVars, boxVars, monVars, calls, clientVars>>

\* line 156: look the thread up
PneThread(w) ==
  /\ wpc[w] = "pne_thread"
  /\ LET t == GetThreadByThreadId(wdata[w].thread_id) IN
       IF t # NoThread
       THEN /\ wthr' = [wthr EXCEPT ![w] = t]
            /\ wpc' = [wpc EXCEPT ![w] = "pne_parts"]
       ELSE /\ wpc' = [wpc EXCEPT ![w] = "pne_create"]
            /\ UNCHANGED wthr
  /\ UNCHANGED <<wdata, worig, wreply, wret, rret, replyCalls, nextReply, outbox, faults>>
  /\ UNCHANGED <<storeVars, boxVars, monVars, calls, clientVars>>

\* (a row that does not carry the thread id of the message)
ThreadRow_NoKey(key, subject) ==
  [id |-> NewThreadPk(key), thread_id |-> <<>>, subject |-> subject,
   participants |-> {}, updated_at |-> 0]

\* the row _create_email_thread builds: no participants yet
ThreadRow(key, subject) ==
  [id |-> NewThreadPk(key), thread_id |-> key, subject |-> subject,
   participants |-> {}, updated_at |-> 0]

\* lines 157-170 and _create_email_thread: INSERT, flush, commit.  When the
\* flush fails _create_email_thread returns None, process_new_email returns
\* None, and the commit of get_db_session in the finally clause raises
\* because the session was not rolled back.
CreateThreadFails(w, fault) == fault \/ ThreadKeyTaken(wdata[w].thread_id)

PneCreate(w) ==
  /\ wpc[w] = "pne_create"
  /\ \E fault \in {FALSE} \cup (IF faults < MaxFaults THEN {TRUE} ELSE {}) :
       /\ faults' = IF fault THEN faults + 1 ELSE faults
       /\ IF CreateThreadFails(w, fault)
          THEN /\ Return(w, "raised")
               /\ UNCHANGED storeVars
          ELSE LET t == ThreadRow(wdata[w].thread_id, wdata[w].subject) IN
               /\ threads' = threads \cup {t}
               /\ wthr' = [wthr EXCEPT ![w] = t]
               /\ wpc' = [wpc EXCEPT ![w] = "pne_parts"]
               /\ UNCHANGED <<messages, wret, worig, wreply, replyCalls>>
  /\ UNCHANGED <<wdata, rret, nextReply, outbox>>
  /\ UNCHANGED <<boxVars, monVars, calls, clientVars>>

\* _save_email_message: add, commit, refresh; a SQLAlchemyError is caught,
\* rolled back and reported as None.  The TypeError of the join is not a
\* SQLAlchemyError: it reaches the except clause of the caller.
SaveFails(data, fault) ==
  JoinFails(data.recipients) \/ fault \/ MessageIdTaken(data.message_id)

\* lines 196-207 and what process_email_callback does with the result
SaveInbound(w, fault) ==
  LET fails == SaveFails(wdata[w], fault)
      ret == IF fails THEN "failed" ELSE "msg" IN
  /\ messages' = IF fails THEN messages
                 ELSE Insert(MessageRow(NewMessagePk(wdata[w].message_id),
                                        wdata[w], wthr[w].id, FALSE))
  /\ Return(w, ret)

\* (an update that also writes the subject of the message to the Thread)
UpdateParticipants_SetSubject(w, merged) ==
  /\ threads' = {IF x.id = wthr[w].id
                 THEN [x EXCEPT !.participants = merged, !.updated_at = @ + 1,
                                !.subject = wdata[w].subject]
                 ELSE x : x \in threads}
  /\ wthr' = [wthr EXCEPT ![w].participants = merged]

\* _update_participants: UPDATE of the loaded row and commit.  updated_at
\* (onupdate=datetime.now) is modelled as the number of UPDATEs of the row.
UpdateParticipants(w, merged) ==
  /\ threads' = {IF x.id = wthr[w].id
                 THEN [x EXCEPT !.participants = merged, !.updated_at = @ + 1]
                 ELSE x : x \in threads}
  /\ wthr' = [wthr EXCEPT ![w].participants = merged]

\* (a merge that always writes the participants back)
ParticipantsChanged_Always(old, merged) == TRUE

\* line 192: set(all_participants) != participants_set
ParticipantsChanged(old, merged) == merged # old

FaultChoice == {FALSE} \cup (IF faults < MaxFaults THEN {TRUE} ELSE {})

\* lines 172-207 up to the next await: the participants are merged; when they
\* changed the next await is the commit of _update_participants, otherwise it
\* is the commit of _save_email_message
PneParts(w) ==
  /\ wpc[w] = "pne_parts"
  /\ LET merged == MergedParticipants(wthr[w], wdata[w]) IN
       IF ParticipantsChanged(GetParticipants(wthr[w]), merged)
       THEN /\ UpdateParticipants(w, merged)
            /\ wpc' = [wpc EXCEPT ![w] = "pne_save"]
            /\ UNCHANGED <<messages, wret, worig, wreply, replyCalls, faults>>
       ELSE /\ \E fault \in FaultChoice :
                 /\ faults' = IF fault THEN faults + 1 ELSE faults
                 /\ SaveInbound(w, fault)
            /\ UNCHANGED threads
  /\ UNCHANGED <<wdata, rret, nextReply, outbox>>
  /\ UNCHANGED <<boxVars, monVars, calls, clientVars>>

\* lines 196-207 after _update_participants has committed
PneSave(w) ==
  /\ wpc[w] = "pne_save"
  /\ \E fault \in FaultChoice :
       /\ faults' = IF fault THEN faults + 1 ELSE faults
       /\ SaveInbound(w, fault)
  /\ UNCHANGED threads
  /\ UNCHANGED <<wdata, rret, nextReply, outbox>>
  /\ UNCHANGED <<boxVars, monVars, calls, clientVars>>

(* ---------------- EmailService.reply_to_email ---------------- *)
\* a caller awaits reply_to_email(mid, ...)
BeginReply(w, mid) ==
  /\ wpc' = [wpc EXCEPT ![w] = "rte_lookup"]
  /\ wdata' = [wdata EXCEPT ![w] = [NoData EXCEPT !.message_id = mid]]
  /\ wret' = [wret EXCEPT ![w] = "pending"]
  /\ rret' = [rret EXCEPT ![w] = "pending"]
  /\ UNCHANGED <<wthr, worig, wreply, replyCalls, nextReply, outbox, faults>>

\* (a lookup whose result is never tested)
NotFound_Never(m) == FALSE

\* line 247: "if not original_message"
NotFound(m) == m = NoMessage

\* lines 245-249: the original message is looked up
RteLookup(w) ==
  /\ wpc[w] = "rte_lookup"
  /\ LET m == GetMessageByMessageId(wdata[w].message_id) IN
       IF NotFound(m)
       THEN /\ rret' = [rret EXCEPT ![w] = "false_none"]
            /\ Finish(w)
       ELSE /\ worig' = [worig EXCEPT ![w] = m]
            /\ wpc' = [wpc EXCEPT ![w] = "rte_send"]
            /\ UNCHANGED <<rret, wthr, wreply>>
  /\ UNCHANGED <<wdata, wret, replyCalls, nextReply, outbox, faults>>
  /\ UNCHANGED <<storeVars, boxVars, monVars, calls, clientVars>>

\* _prepare_reply_data: sender first, then the recipients that are neither
\* the system nor already listed (split(",") drops the empty items)
RECURSIVE AppendNew(_, _)
AppendNew(acc, rest) ==
  IF rest = <<>> THEN acc
  ELSE AppendNew(IF Head(rest) \notin {"", OWN} /\ \A i \in DOMAIN acc : acc[i] # Head(rest)
                 THEN Append(acc, Head(rest)) ELSE acc,
                 Tail(rest))

ReplyRecipients(orig) == AppendNew(<<orig.sender>>, orig.recipients)

ReplySubject(orig) ==
  IF orig.subject # <<>> /\ Head(orig.subject) \in {"Re:", "RE:", "re:"}
  THEN orig.subject ELSE <<"Re:">> \o orig.subject

ReplyReferences(orig) ==
  IF orig.references # <<>> THEN orig.references ELSE <<orig.message_id>>

\* send_email, lines 270-283, on token lists: the id replied to is appended
\* to the references unless it occurs in them
SentReferences(in_reply_to, references) ==
  IF in_reply_to = "" THEN references
  ELSE IF references = <<>> THEN <<in_reply_to>>
  ELSE IF \E i \in DOMAIN references : references[i] = in_reply_to THEN references
  ELSE Append(references, in_reply_to)

\* the message send_email hands to the SMTP server
SentMessage(data) ==
  [data EXCEPT !.references = SentReferences(data.in_reply_to, data.references)]

\* the reply_data dictionary of lines 269-278
ReplyData(orig, replyId) ==
  [message_id |-> replyId, in_reply_to |-> orig.message_id,
   references |-> ReplyReferences(orig), subject |-> ReplySubject(orig),
   sender |-> OWN, recipients |-> ReplyRecipients(orig), thread_id |-> <<>>]

\* lines 251-266: send_email reports (True, msg_id) or, when every attempt
\* failed, (False, "")
RteSend(w) ==
  /\ wpc[w] = "rte_send"
  /\ \E sent \in {FALSE} \cup (IF nextReply < MaxReplies THEN {TRUE} ELSE {}) :
       IF sent
       THEN /\ nextReply' = nextReply + 1
            /\ wreply' = [wreply EXCEPT ![w] = ReplyIds[nextReply + 1]]
            /\ outbox' = outbox \cup {SentMessage(ReplyData(worig[w], ReplyIds[nextReply + 1]))}
            /\ wpc' = [wpc EXCEPT ![w] = "rte_save"]
            /\ UNCHANGED <<rret, wthr, worig>>
       ELSE /\ rret' = [rret EXCEPT ![w] = "false_none"]
            /\ Finish(w)
            /\ UNCHANGED <<nextReply, outbox>>
  /\ UNCHANGED <<wdata, wret, replyCalls, faults>>
  /\ UNCHANGED <<storeVars, boxVars, monVars, calls, clientVars>>

\* (a reply filed under a thread of its own)
ReplyThread_Own(orig) == <<<<orig.message_id>>, 1>>

\* line 283: thread_id=original_message.thread_id
ReplyThread(orig) == orig.thread

\* lines 268-290: the reply is saved in the thread of the original message;
\* whatever _save_email_message returns, success is reported
RteSave(w) ==
  /\ wpc[w] = "rte_save"
  /\ \E fault \in FaultChoice :
       LET data == ReplyData(worig[w], wreply[w])
           fails == SaveFails(data, fault) IN
       /\ faults' = IF fault THEN faults + 1 ELSE faults
       /\ messages' = IF fails THEN messages
                      ELSE Insert(MessageRow(NewMessagePk(data.message_id), data,
                                             ReplyThread(worig[w]), TRUE))
       /\ rret' = [rret EXCEPT ![w] = IF fails THEN "true_none" ELSE "true_msg"]
  /\ Finish(w)
  /\ UNCHANGED threads
  /\ UNCHANGED <<wdata, wret, replyCalls, nextReply, outbox>>
  /\ UNCHANGED <<boxVars, monVars, calls, clientVars>>

\* one step of the unit of work in slot w
Step(w) ==
  \/ PneExists(w) \/ PneThread(w) \/ PneCreate(w) \/ PneParts(w) \/ PneSave(w)
  \/ RteLookup(w) \/ RteSend(w) \/ RteSave(w)

(* ---------------- the mailbox ---------------- *)
\* the environment puts the raw message RawMails[i] into the mailbox
Deliver(i, max) ==
  /\ delivered < max
  /\ unseen' = Append(unseen, i)
  /\ delivered' = delivered + 1
  /\ UNCHANGED <<fetched, returned, storeCalls>>
  /\ UNCHANGED <<storeVars, workVars, monVars, calls, clientVars>>

(* ---------------- EmailClient.check_new_emails ---------------- *)
\* position of the first message of the list that _parse_email raises on, 0 if none
FirstBad(ids) ==
  IF \E i \in DOMAIN ids : ~RawMails[ids[i]].ok
  THEN CHOOSE i \in DOMAIN ids :
         /\ ~RawMails[ids[i]].ok
         /\ \A j \in 1..(i - 1) : RawMails[ids[j]].ok
  ELSE 0

\* the list check_new_emails returns for the UNSEEN list ids: the exception of
\* _parse_email leaves the for loop and the except clause returns []
CheckResult(ids, connected) ==
  IF ~connected \/ FirstBad(ids) # 0 THEN <<>> ELSE ids

\* FETCH (RFC822) sets \Seen on the server for the messages fetched: the
\* messages up to the one that did not parse leave the UNSEEN list
UnseenAfter(ids, connected) ==
  IF ~connected THEN ids
  ELSE IF FirstBad(ids) # 0 THEN SubSeq(ids, FirstBad(ids) + 1, Len(ids))
  ELSE <<>>

\* the messages fetched and parsed by one call
ParsedCount(ids, connected) ==
  IF ~connected THEN 0
  ELSE IF FirstBad(ids) # 0 THEN FirstBad(ids) - 1
  ELSE Len(ids)

\* STORE +FLAGS \Seen commands check_new_emails sends for the list: none
SeenCommands(ids, connected) == 0

(* ---------------- EmailMonitor ---------------- *)
\* (a loop that fetches again at once when its tick raised)
TickEnd_RetryOnError(raised) == IF raised THEN "check" ELSE "sleep"

\* where the loop task goes when its tick has ended: asyncio.sleep of line
\* 367, or, when the tick raised, asyncio.sleep of the except clause, line 372
TickEnd(raised) == "sleep"

\* (a start() that does not test _running)
AlreadyRunning_Never(r) == FALSE

\* line 376: "if self._running: return"
AlreadyRunning(r) == r

\* _check_emails, from the while test to the first await: the task ends when
\* _running is False, otherwise it fetches and either awaits the callback for
\* the first message or sleeps
LoopCheck(t) ==
  /\ lpc[t] = "check"
  /\ IF ~running
     THEN /\ lpc' = [lpc EXCEPT ![t] = "done"]
          /\ UNCHANGED <<batch, boxVars, workVars>>
     ELSE \E connected \in BOOLEAN :
            LET emails == CheckResult(unseen, connected) IN
            /\ unseen' = UnseenAfter(unseen, connected)
            /\ fetched' = fetched + ParsedCount(unseen, connected)
            /\ storeCalls' = storeCalls + SeenCommands(unseen, connected)
            /\ returned' = returned \cup {RawMails[emails[i]].mid : i \in DOMAIN emails}
            /\ UNCHANGED delivered
            /\ IF emails # <<>>
               THEN /\ batch' = [batch EXCEPT ![t] = emails]
                    /\ lpc' = [lpc EXCEPT ![t] = "wait"]
                    /\ BeginCallback(t, ParseEmail(RawMails[Head(emails)]))
               ELSE /\ lpc' = [lpc EXCEPT ![t] = TickEnd(FALSE)]
                    /\ UNCHANGED <<batch, workVars>>
  /\ UNCHANGED <<running, task, nextTask, spc, sawait, starts, stops>>
  /\ UNCHANGED <<storeVars, calls, clientVars>>

\* the callback of the first message of batch[t] has ended: an exception
\* leaves the for loops for the except clause, which sleeps; otherwise the
\* next message is handed to the callback, or the task sleeps
LoopResume(t) ==
  /\ lpc[t] = "wait" /\ wpc[t] = "idle"
  /\ IF wret[t] = "raised" \/ Tail(batch[t]) = <<>>
     THEN /\ batch' = [batch EXCEPT ![t] = <<>>]
          /\ lpc' = [lpc EXCEPT ![t] = TickEnd(wret[t] = "raised")]
          /\ UNCHANGED workVars
     ELSE /\ batch' = [batch EXCEPT ![t] = Tail(batch[t])]
          /\ BeginCallback(t, ParseEmail(RawMails[batch[t][2]]))
          /\ UNCHANGED lpc
  /\ UNCHANGED <<running, task, nextTask, spc, sawait, starts, stops>>
  /\ UNCHANGED <<storeVars, boxVars, calls, clientVars>>

\* asyncio.sleep(check_interval) completes
LoopWake(t) ==
  /\ lpc[t] = "sleep"
  /\ lpc' = [lpc EXCEPT ![t] = "check"]
  /\ UNCHANGED <<running, task, nextTask, batch, spc, sawait, starts, stops>>
  /\ UNCHANGED <<storeVars, workVars, boxVars, calls, clientVars>>

\* start(): no-op when running, otherwise a new loop task is created
Start ==
  /\ starts < MaxStarts
  /\ running \/ nextTask < MaxTasks
  /\ starts' = starts + 1
  /\ IF AlreadyRunning(running)
     THEN UNCHANGED <<running, task, nextTask, lpc>>
     ELSE /\ running' = TRUE
          /\ nextTask' = nextTask + 1
          /\ task' = nextTask + 1
          /\ lpc' = [lpc EXCEPT ![nextTask + 1] = "check"]
  /\ UNCHANGED <<batch, spc, sawait, stops>>
  /\ UNCHANGED <<storeVars, workVars, boxVars, calls, clientVars>>

\* stop() up to its await: no-op when not running, otherwise _running is
\* cleared and the call awaits the task _task names
StopBegin ==
  /\ stops < MaxStops
  /\ stops' = stops + 1
  /\ IF ~running
     THEN UNCHANGED <<running, spc, sawait>>
     ELSE /\ running' = FALSE
          /\ IF task # 0
             THEN /\ spc' = [spc EXCEPT ![stops + 1] = "await"]
                  /\ sawait' = [sawait EXCEPT ![stops + 1] = task]
             ELSE /\ spc' = [spc EXCEPT ![stops + 1] = "done"]
                  /\ UNCHANGED sawait
  /\ UNCHANGED <<task, nextTask, lpc, batch, starts>>
  /\ UNCHANGED <<storeVars, workVars, boxVars, calls, clientVars>>

\* the task a stop() call awaits has ended: _task = None and stop() returns
StopEnd(s) ==
  /\ spc[s] = "await" /\ lpc[sawait[s]] = "done"
  /\ spc' = [spc EXCEPT ![s] = "done"]
  /\ task' = 0
  /\ UNCHANGED <<running, nextTask, lpc, batch, sawait, starts, stops>>
  /\ UNCHANGED <<storeVars, workVars, boxVars, calls, clientVars>>

(* ---------------- callers outside the poll loop ---------------- *)
\* someone awaits process_email_callback(d) in the free slot w
CallCallback(w, d) ==
  /\ wpc[w] = "idle" /\ lpc[w] # "wait" /\ calls < MaxCalls
  /\ BeginCallback(w, d)
  /\ calls' = calls + 1
  /\ UNCHANGED <<storeVars, boxVars, monVars, clientVars>>

\* someone awaits reply_to_email(mid, ...) in the free slot w
CallReply(w, mid) ==
  /\ wpc[w] = "idle" /\ lpc[w] # "wait" /\ calls < MaxCalls
  /\ BeginReply(w, mid)
  /\ calls' = calls + 1
  /\ UNCHANGED <<storeVars, boxVars, monVars, clientVars>>

MessageIds == {d.message_id : d \in EmailData} \cup {ReplyIds[i] : i \in 1..MaxReplies}

\* what the callers outside the poll loop pass
CallData == {d \in EmailData : d.message_id \in {"m2", "m3", "m6"}}
CallIds == {"m2", "r1"}
\* email_data whose recipients are empty, hold "" or None, or are missing; m8
\* has the thread key of m6 and m9 under another subject
EdgeData == {d \in EmailData : d.message_id \in {"m6", "m7", "m8", "m9"}}

\* a reply the SMTP server has accepted, as it arrives in a mailbox
RawOfSent(o) ==
  [mid |-> o.message_id, refs |-> o.references, irt |-> o.in_reply_to, subject |-> o.subject,
   from |-> o.sender, to |-> o.recipients, ok |-> TRUE]

\* the email_data _parse_email makes of it
EchoData(o) == ParseEmail(RawOfSent(o))

\* the inbound messages of the specification with a shared mailbox
InboundData == {ParseEmail(RawMails[i]) : i \in {1, 2}}

(* ---------------- EmailClient on header text ---------------- *)
\* A header value is a sequence of characters.  The functions below are
\* _extract_thread_id and the References rule of send_email on such text.
NoHeaders == [references |-> <<>>, in_reply_to |-> <<>>, subject |-> <<>>, from |-> <<>>]
NoSendArgs == [in_reply_to |-> <<>>, references |-> <<>>]

\* f"<{id}>"
Bracket(id) == <<"<">> \o id \o <<">">>

\* "sub in text" of Python for a non-empty sub
Occurs(sub, text) ==
  \E i \in 1..(Len(text) - Len(sub) + 1) : SubSeq(text, i, i + Len(sub) - 1) = sub

\* end of the match of <([^<>]+)> that starts at position i, 0 when there is none
MatchEnd(text, i) ==
  IF text[i] # "<" THEN 0
  ELSE LET ends == {j \in (i + 1)..Len(text) : text[j] \in {"<", ">"}} IN
       IF ends = {} THEN 0
       ELSE LET j == CHOOSE k \in ends : \A l \in ends : k <= l IN
            IF text[j] = ">" /\ j > i + 1 THEN j ELSE 0

\* re.findall(r'<([^<>]+)>', text), scanning from position i
RECURSIVE FindAllFrom(_, _)
FindAllFrom(text, i) ==
  IF i > Len(text) THEN <<>>
  ELSE LET j == MatchEnd(text, i) IN
       IF j = 0 THEN FindAllFrom(text, i + 1)
       ELSE <<SubSeq(text, i + 1, j - 1)>> \o FindAllFrom(text, j + 1)

\* (a scan that starts after the first character)
FindAll_SkipFirst(text) == FindAllFrom(text, 2)

FindAll(text) == FindAllFrom(text, 1)

\* parseaddr(text)[1] for "addr" and "Name <addr>"
ParseAddr(text) == IF FindAll(text) # <<>> THEN FindAll(text)[1] ELSE text

\* (?i): the letters of the pattern match in either case
Lower(c) ==
  CASE c = "R" -> "r" [] c = "E" -> "e" [] c = "F" -> "f" [] c = "W" -> "w" [] c = "D" -> "d"
    [] OTHER -> c

StartsWith(s, word) ==
  Len(word) <= Len(s) /\ \A k \in 1..Len(word) : Lower(s[k]) = word[k]

Digits == {"1", "2"}

\* length of the match of (?i)^(re|fwd)(\[\d+\])?:\s* at the start of s, 0 when
\* the pattern does not match
PrefixMatchLen(s) ==
  LET w == IF StartsWith(s, <<"r", "e">>) THEN 2
           ELSE IF StartsWith(s, <<"f", "w", "d">>) THEN 3 ELSE 0
      ds == {j \in (w + 2)..Len(s) : \A k \in (w + 2)..j : s[k] \in Digits}
      d == IF ds = {} THEN 0 ELSE CHOOSE j \in ds : \A l \in ds : l <= j
      g == IF w + 1 <= Len(s) /\ s[w + 1] = "[" /\ d # 0 /\ d + 1 <= Len(s) /\ s[d + 1] = "]"
           THEN d + 1 ELSE w
      c == g + 1
      ws == {j \in (c + 1)..Len(s) : \A k \in (c + 1)..j : s[k] = " "}
      e == IF ws = {} THEN c ELSE CHOOSE j \in ws : \A l \in ws : l <= j
  IN  IF w = 0 \/ c > Len(s) THEN 0
      ELSE IF s[c] # ":" THEN 0 ELSE e

\* lines 173-177: re.sub removes the one match at the start of the subject
CleanSubjectText(subject) ==
  LET s == SubSeq(subject, PrefixMatchLen(subject) + 1, Len(subject))
  IN  IF s = <<>> THEN <<"No Subject">> ELSE s

\* (a derivation that does not look at In-Reply-To)
ExtractThreadIdText_NoInReplyTo(msg) ==
  IF msg.references # <<>> /\ FindAll(msg.references) # <<>>
  THEN FindAll(msg.references)[1]
  ELSE CleanSubjectText(msg.subject) \o <<"_">> \o ParseAddr(msg.from)

\* _extract_thread_id on the headers of a message
ExtractThreadIdText(msg) ==
  IF msg.references # <<>> /\ FindAll(msg.references) # <<>>
  THEN FindAll(msg.references)[1]
  ELSE IF msg.in_reply_to # <<>> /\ FindAll(msg.in_reply_to) # <<>>
  THEN FindAll(msg.in_reply_to)[1]
  ELSE CleanSubjectText(msg.subject) \o <<"_">> \o ParseAddr(msg.from)

\* send_email, lines 270-283: the References header of the message sent
ReferencesHeader(in_reply_to, references) ==
  IF in_reply_to # <<>>
  THEN IF references # <<>>
       THEN IF ~Occurs(in_reply_to, references)
            THEN references \o <<" ">> \o Bracket(in_reply_to)
            ELSE references
       ELSE Bracket(in_reply_to)
  ELSE references

\* tenacity: stop_after_attempt(5)
StopAfterAttempt == 5

\* (a retry policy that allows one more attempt)
RetryStops_OneMore(n) == n >= StopAfterAttempt + 1

\* the stop condition of the retry decorator after the n-th failed attempt
RetryStops(n) == n >= StopAfterAttempt

(* ---------------- EmailClient._parse_email: the body ---------------- *)
\* get_payload(decode=True) of a multipart container
NONE == <<"<None>">>
\* email_data["body_text"] = "" and email_data["body_html"] = ""
NoBody == [body_text |-> <<>>, body_html |-> <<>>]
NoMail == [multipart |-> FALSE, parts |-> <<>>]

\* "attachment" in content_disposition: the word occurs anywhere in the header
IsAttachment(part) == Occurs(<<"attachment">>, part.disposition)

\* payload.decode(charset), and payload.decode("latin-1") when the bytes are
\* not UTF-8: the byte xFF is not UTF-8 and is y-diaeresis in latin-1
Decode(payload) ==
  IF \E i \in DOMAIN payload : payload[i] = "xFF"
  THEN [i \in DOMAIN payload |-> IF payload[i] = "xFF" THEN "y-diaeresis" ELSE payload[i]]
  ELSE payload

\* lines 114-117 (and 129-132): the decoded payload is assigned by content type
Assign(body, part) ==
  IF part.ctype = "text/plain" THEN [body EXCEPT !.body_text = Decode(part.payload)]
  ELSE IF part.ctype = "text/html" THEN [body EXCEPT !.body_html = Decode(part.payload)]
  ELSE body

\* lines 99-117: the loop over msg.walk()
RECURSIVE WalkBody(_, _)
WalkBody(body, parts) ==
  IF parts = <<>> THEN body
  ELSE LET part == Head(parts) IN
       IF IsAttachment(part) \/ part.payload = NONE
       THEN WalkBody(body, Tail(parts))
       ELSE WalkBody(Assign(body, part), Tail(parts))

\* msg.walk() of a multipart message: the container, then its parts
Walk(mail) ==
  <<[ctype |-> "multipart/mixed", disposition |-> <<>>, payload |-> NONE]>> \o mail.parts

\* lines 94-132: the body of a multipart message and of a single-part one
ParseBody(mail) ==
  IF mail.multipart THEN WalkBody(NoBody, Walk(mail))
  ELSE IF mail.parts # <<>> /\ mail.parts[1].payload \notin {NONE, <<>>}
       THEN Assign(NoBody, mail.parts[1])
       ELSE NoBody

(* ---------------- inputs of the EmailClient calls ---------------- *)
Ids == {<<"a">>, <<"b">>, <<"a", "b">>}

IdLists(n) == UNION {[1..k -> Ids] : k \in 0..n}

\* the tokens <id> of a list separated by one space
RECURSIVE RenderRefs(_)
RenderRefs(ids) ==
  IF ids = <<>> THEN <<>>
  ELSE IF Len(ids) = 1 THEN Bracket(ids[1])
  ELSE Bracket(ids[1]) \o <<" ">> \o RenderRefs(Tail(ids))

\* header values that hold no complete <id> token
Malformed == {<<"a">>, <<"<", ">">>, <<"<", "a">>}

RefHeaders == {RenderRefs(l) : l \in IdLists(MaxRefs)} \cup Malformed
IrtHeaders == {<<>>} \cup {Bracket(i) : i \in Ids} \cup {<<"b">>}

SubjectPieces ==
  { <<"R", "e", ":", " ">>, <<"R", "E", "[", "2", "]", ":", " ">>,
    <<"F", "W", "D", ":">>, <<"H", "i">> }

RECURSIVE Concat(_)
Concat(pieces) == IF pieces = <<>> THEN <<>> ELSE Head(pieces) \o Concat(Tail(pieces))

Subjects == {Concat(p) : p \in UNION {[1..k -> SubjectPieces] : k \in 0..MaxPieces}}

FromHeaders == {<<"x">>, <<"A", " ", "<", "y", ">">>}

MessageHeaders ==
  [references : RefHeaders, in_reply_to : IrtHeaders, subject : Subjects, from : FromHeaders]

\* in_reply_to is a bare id; references is a header value or, as
\* _prepare_reply_data passes it for a first reply, a bare id
SendArgs ==
  [in_reply_to : {<<>>} \cup Ids,
   references : {RenderRefs(l) : l \in IdLists(MaxRefs)} \cup Ids]

\* the parts a message is put together from
Parts ==
  { [ctype |-> "text/plain", disposition |-> <<>>, payload |-> <<"a">>],
    [ctype |-> "text/plain", disposition |-> <<"inline">>, payload |-> <<"b">>],
    [ctype |-> "text/plain", disposition |-> <<>>, payload |-> <<>>],
    [ctype |-> "text/plain", disposition |-> <<>>, payload |-> <<"xFF", "c">>],
    [ctype |-> "text/plain", disposition |-> <<"attachment", ";", "filename=n.txt">>,
     payload |-> <<"n">>],
    [ctype |-> "text/html", disposition |-> <<>>, payload |-> <<"h">>],
    [ctype |-> "text/html", disposition |-> <<>>, payload |-> <<"g">>],
    [ctype |-> "application/pdf", disposition |-> <<"attachment", ";", "filename=t.pdf">>,
     payload |-> <<"p">>] }

Mails ==
  [multipart : {TRUE}, parts : UNION {[1..k -> Parts] : k \in 0..MaxParts}]
    \cup [multipart : {FALSE}, parts : [1..1 -> Parts]]

(* ---------------- the EmailClient calls ---------------- *)
\* _parse_email(raw_email) extracts the body and returns
ParseCall ==
  /\ cpc = "parse"
  /\ cbody' = ParseBody(cmail)
  /\ cpc' = "parsed"
  /\ UNCHANGED <<cmsg, ckey, sargs, shdr, attempts, sendret, cmail>>
  /\ UNCHANGED <<storeVars, workVars, boxVars, monVars, calls>>

\* _extract_thread_id(msg) is called and returns
ExtractCall ==
  /\ cpc = "extract"
  /\ ckey' = ExtractThreadIdText(cmsg)
  /\ cpc' = "keyed"
  /\ UNCHANGED <<cmsg, sargs, shdr, attempts, sendret, cmail, cbody>>
  /\ UNCHANGED <<storeVars, workVars, boxVars, monVars, calls>>

\* send_email up to its await of _send_smtp: the headers are set
SendEmail ==
  /\ cpc = "send"
  /\ shdr' = ReferencesHeader(sargs.in_reply_to, sargs.references)
  /\ cpc' = "smtp"
  /\ UNCHANGED <<cmsg, ckey, sargs, attempts, sendret, cmail, cbody>>
  /\ UNCHANGED <<storeVars, workVars, boxVars, monVars, calls>>

\* one attempt of _send_smtp: it returns (True, id), or it raises and the
\* decorator either waits for the next attempt or raises RetryError, which
\* the except clause of send_email turns into (False, "")
SendSmtp ==
  /\ cpc = "smtp"
  /\ attempts' = attempts + 1
  /\ \E ok \in BOOLEAN :
       IF ok
       THEN /\ sendret' = "true_id"
            /\ cpc' = "returned"
       ELSE IF RetryStops(attempts + 1)
       THEN /\ sendret' = "false_empty"
            /\ cpc' = "returned"
       ELSE UNCHANGED <<sendret, cpc>>
  /\ UNCHANGED <<cmsg, ckey, sargs, shdr, cmail, cbody>>
  /\ UNCHANGED <<storeVars, workVars, boxVars, monVars, calls>>

(* ---------------- specifications ---------------- *)
\* the service, the mailbox and the monitor after construction
InitBase ==
  /\ threads = {} /\ messages = {}
  /\ wpc = [w \in Tasks |-> "idle"]
  /\ wdata = [w \in Tasks |-> NoData]
  /\ wthr = [w \in Tasks |-> NoThread]
  /\ worig = [w \in Tasks |-> NoMessage]
  /\ wreply = [w \in Tasks |-> ""]
  /\ wret = [w \in Tasks |-> "pending"]
  /\ rret = [w \in Tasks |-> "pending"]
  /\ replyCalls = [m \in MessageIds |-> 0]
  /\ nextReply = 0 /\ outbox = {} /\ faults = 0
  /\ unseen = <<>> /\ delivered = 0 /\ fetched = 0 /\ returned = {} /\ storeCalls = 0
  /\ running = FALSE /\ task = 0 /\ nextTask = 0
  /\ lpc = [t \in Tasks |-> "none"]
  /\ batch = [t \in Tasks |-> <<>>]
  /\ spc = [s \in 1..MaxStops |-> "idle"]
  /\ sawait = [s \in 1..MaxStops |-> 0]
  /\ starts = 0 /\ stops = 0 /\ calls = 0

Init ==
  /\ InitBase
  /\ cpc = "none" /\ cmsg = NoHeaders /\ ckey = <<>>
  /\ sargs = NoSendArgs /\ shdr = <<>> /\ attempts = 0 /\ sendret = "pending"
  /\ cmail = NoMail /\ cbody = NoBody

\* one call of _extract_thread_id or of send_email on any of the inputs
InitClient ==
  /\ InitBase
  /\ ckey = <<>> /\ shdr = <<>> /\ attempts = 0 /\ sendret = "pending"
  /\ cbody = NoBody
  /\ \/ cpc = "extract" /\ cmsg \in MessageHeaders /\ sargs = NoSendArgs /\ cmail = NoMail
     \/ cpc = "send" /\ sargs \in SendArgs /\ cmsg = NoHeaders /\ cmail = NoMail
     \/ cpc = "parse" /\ cmail \in Mails /\ cmsg = NoHeaders /\ sargs = NoSendArgs

\* the service under concurrent callers
Next ==
  \/ \E w \in Tasks, d \in CallData : CallCallback(w, d)
  \/ \E w \in Tasks, mid \in CallIds : CallReply(w, mid)
  \/ \E w \in Tasks : Step(w)

Spec == Init /\ [][Next]_vars

\* the poll loop of one monitor that is started and never stopped
NextPoll ==
  \/ Start
  \/ \E i \in DOMAIN RawMails : Deliver(i, MaxDeliver)
  \/ \E t \in Tasks : LoopCheck(t) \/ LoopResume(t) \/ LoopWake(t)
  \/ \E w \in Tasks : Step(w)

SpecPoll == Init /\ [][NextPoll]_vars

\* start() and stop() calls interleaved with the poll loops
NextMon ==
  \/ Start
  \/ StopBegin
  \/ \E s \in 1..MaxStops : StopEnd(s)
  \/ Deliver(1, MaxDeliverMon)
  \/ \E t \in Tasks : LoopCheck(t) \/ LoopResume(t) \/ LoopWake(t)
  \/ \E w \in Tasks : Step(w)

SpecMon == Init /\ [][NextMon]_vars

\* the same under the scheduling of the event loop: a task that can take a step
\* (its fetch, its callback, its sleep) takes it, and a stop() call whose task
\* has ended returns; start(), stop() and the mailbox are up to the environment
SpecMonFair ==
  /\ Init /\ [][NextMon]_vars
  /\ \A t \in Tasks : WF_vars(LoopCheck(t)) /\ WF_vars(LoopResume(t)) /\ WF_vars(LoopWake(t))
  /\ \A w \in Tasks : WF_vars(Step(w))
  /\ \A s \in 1..MaxStops : WF_vars(StopEnd(s))

\* the coroutine slots are interchangeable: a new call takes the first free one
FirstFree(w) == wpc[w] = "idle" /\ \A v \in 1..(w - 1) : wpc[v] # "idle"

\* process_email_callback on the email_data of EdgeData
NextEdge ==
  \/ \E w \in Tasks, d \in EdgeData : FirstFree(w) /\ CallCallback(w, d)
  \/ \E w \in Tasks : Step(w)

SpecEdge == Init /\ [][NextEdge]_vars

\* the mailbox the system sends from is the one it reads: the callback is
\* awaited for inbound messages and for the replies the system has sent
NextEcho ==
  \/ \E w \in Tasks, d \in InboundData : CallCallback(w, d)
  \/ \E w \in Tasks, o \in outbox : CallCallback(w, EchoData(o))
  \/ \E w \in Tasks : Step(w)

SpecEcho == Init /\ [][NextEcho]_vars

\* the EmailClient functions on their inputs
NextClient == ExtractCall \/ SendEmail \/ SendSmtp \/ ParseCall

SpecClient == InitClient /\ [][NextClient]_vars

(* ---------------- claims ---------------- *)
\* an inbound unit of work that is past its idempotency check
InFlight(w) == wpc[w] \in {"pne_thread", "pne_create", "pne_parts", "pne_save"}

\* C1: under any interleaving of process_new_email and reply_to_email calls
\* the store never holds two Messages with the same message_id.
C1_UniqueMessageId ==
  \A m1 \in messages, m2 \in messages : m1.message_id = m2.message_id => m1 = m2

\* C1 witness: a unit of work is past its idempotency check and about to save
\* a message id that another unit has stored in the meantime, next to a reply.
C1_Witness ==
  /\ \E w \in Tasks : wpc[w] \in {"pne_parts", "pne_save"} /\ MessageIdTaken(wdata[w].message_id)
  /\ \E m \in messages : m.is_sent_by_system

\* C2: process_new_email on a message id that is already stored reports
\* "skipped" (returns no message) and leaves threads and messages as they were.
C2_SkipLeavesStore ==
  [][\A w \in Tasks :
       (wpc[w] = "pne_exists" /\ wpc'[w] # "pne_exists" /\ MessageIdTaken(wdata[w].message_id))
         => /\ wret'[w] = "skipped" /\ wpc'[w] = "idle"
            /\ threads' = threads /\ messages' = messages]_vars

\* C2 witness: a call was skipped while the thread of the message has participants.
C2_Witness ==
  \E w \in Tasks :
    /\ wpc[w] = "idle" /\ wret[w] = "skipped"
    /\ \E m \in messages : m.message_id = wdata[w].message_id
    /\ \E t \in threads : t.participants # {}

\* C3: however often one message id is handed to process_email_callback, it
\* awaits reply_to_email at most once for it, and only for a message that
\* process_new_email has persisted.
C3_AtMostOneReply ==
  \A mid \in MessageIds :
    /\ replyCalls[mid] <= 1
    /\ replyCalls[mid] = 1 =>
         \E m \in messages : m.message_id = mid /\ ~m.is_sent_by_system

\* C3 witness: a message was replied to and a later delivery of it was skipped.
C3_Witness ==
  \E w \in Tasks :
    /\ wpc[w] = "idle" /\ wret[w] = "skipped"
    /\ replyCalls[wdata[w].message_id] = 1

\* C4: when a message of the fetched list fails to parse, every other message
\* of the list is still returned by check_new_emails.
C4_ParseErrorIsolated ==
  [][\A t \in Tasks :
       (lpc[t] = "check" /\ lpc'[t] # "check" /\ running /\ unseen' # unseen)
         => \A i \in DOMAIN unseen :
              RawMails[unseen[i]].ok => RawMails[unseen[i]].mid \in returned']_vars

\* C5: when the callback of one message of the batch raises, the next message
\* of the batch is still handed to the callback.
C5_CallbackErrorIsolated ==
  [][\A t \in Tasks :
       (lpc[t] = "wait" /\ wpc[t] = "idle" /\ Len(batch[t]) > 1 /\ batch'[t] # batch[t])
         => /\ wpc'[t] = "pne_exists"
            /\ wdata'[t] = ParseEmail(RawMails[batch[t][2]])]_vars

\* C6: a unit of work that ended in failure leaves nothing behind: every
\* stored Thread has a Message, or is held by a unit that is still running.
C6_NoThreadWithoutMessage ==
  \A t \in threads :
    \/ \E m \in messages : m.thread = t.id
    \/ \E w \in Tasks : wpc[w] \in {"pne_parts", "pne_save"} /\ wthr[w].id = t.id

\* C7: a message sent from the system's own address is never returned by
\* check_new_emails and never stored as an inbound Message.
C7_OwnAddressFiltered ==
  /\ \A i \in DOMAIN RawMails : RawMails[i].from = OWN => RawMails[i].mid \notin returned
  /\ \A m \in messages : ~m.is_sent_by_system => m.sender # OWN

\* C8: every message check_new_emails fetched and parsed has been marked seen
\* by one STORE +FLAGS \Seen command.
C8_MarkedSeenOnce == storeCalls = fetched

\* C9: when the INSERT of a Thread fails because another unit of work has
\* created the Thread of that key, the unit goes on with the existing Thread.
C9_ThreadRaceResolved ==
  [][\A w \in Tasks :
       (wpc[w] = "pne_create" /\ wpc'[w] # "pne_create" /\ faults' = faults
          /\ ThreadKeyTaken(wdata[w].thread_id))
         => /\ wpc'[w] = "pne_parts"
            /\ wthr'[w] = GetThreadByThreadId(wdata[w].thread_id)]_vars

\* C10: at most one loop task is inside a tick (between its fetch and the end
\* of the callbacks of its batch) at any time.
C10_OneTickAtATime == Cardinality({t \in Tasks : lpc[t] = "wait"}) <= 1

\* C11: for a message whose References header is the token list <a> <b> ...,
\* the thread key _extract_thread_id derives is the first id a, whatever the
\* later tokens, the In-Reply-To header and the subject are.
C11_FirstReferenceIsKey ==
  \A l \in IdLists(MaxRefs) :
    (cpc = "keyed" /\ l # <<>> /\ cmsg.references = RenderRefs(l)) => ckey = l[1]

\* C11 witness: a key was derived from a References header of two ids while
\* the In-Reply-To header named a third id and the subject was not empty.
C11_Witness ==
  /\ cpc = "keyed"
  /\ cmsg.references = RenderRefs(<< <<"a", "b">>, <<"a">> >>)
  /\ cmsg.in_reply_to = Bracket(<<"b">>)
  /\ cmsg.subject # <<>>
  /\ ckey = <<"a", "b">>

\* C12: for a message with no References header and the In-Reply-To header
\* <x>, the derived thread key is x, whatever the subject and the sender are.
C12_InReplyToIsKey ==
  \A x \in Ids :
    (cpc = "keyed" /\ cmsg.references = <<>> /\ cmsg.in_reply_to = Bracket(x)) => ckey = x

\* C12 witness: a key was derived from the In-Reply-To header of a message
\* that has a subject and a display-name sender but no References header.
C12_Witness ==
  /\ cpc = "keyed"
  /\ cmsg.references = <<>>
  /\ cmsg.in_reply_to = Bracket(<<"a", "b">>)
  /\ cmsg.subject # <<>> /\ cmsg.from # <<"x">>
  /\ ckey = <<"a", "b">>

\* clean as the claim states it: every leading reply prefix is stripped
RECURSIVE StripAllPrefixes(_)
StripAllPrefixes(s) ==
  IF PrefixMatchLen(s) = 0 THEN s
  ELSE StripAllPrefixes(SubSeq(s, PrefixMatchLen(s) + 1, Len(s)))

\* C13: for a message with neither References nor In-Reply-To the thread key
\* is clean(subject) + "_" + sender address, where clean strips the leading
\* reply prefixes (clean("Re: Re[2]: Hi") = "Hi") and clean("") = "No Subject".
C13_SubjectSenderKey ==
  (cpc = "keyed" /\ cmsg.references = <<>> /\ cmsg.in_reply_to = <<>>)
    => ckey = (IF StripAllPrefixes(cmsg.subject) = <<>> THEN <<"No Subject">>
               ELSE StripAllPrefixes(cmsg.subject))
              \o <<"_">> \o ParseAddr(cmsg.from)

\* C14: for a reply sent with in_reply_to = r and the references string R, the
\* References header sent is R when the bracketed id <r> occurs in R, and R
\* followed by " <r>" otherwise.
C14_AppendUnlessBracketedPresent ==
  (cpc \in {"smtp", "returned"} /\ sargs.in_reply_to # <<>> /\ sargs.references # <<>>)
    => shdr = IF Occurs(Bracket(sargs.in_reply_to), sargs.references)
              THEN sargs.references
              ELSE sargs.references \o <<" ">> \o Bracket(sargs.in_reply_to)

\* C15: send_email makes at most 5 send attempts, makes no attempt after a
\* successful one, and when every attempt failed it returns (False, "")
\* instead of raising.
C15_BoundedRetry ==
  /\ [](/\ attempts <= 5
        /\ sendret \in {"pending", "true_id", "false_empty"}
        /\ sendret = "true_id" => cpc = "returned"
        /\ (cpc = "returned" /\ sendret # "true_id")
             => (sendret = "false_empty" /\ attempts = 5))
  /\ [][sendret # "pending" => attempts' = attempts]_vars

\* C15 witness: five attempts failed and send_email returned (False, "").
C15_Witness == cpc = "returned" /\ sendret = "false_empty" /\ attempts = 5

C17_FailedReplyPersistsNothing ==
  [][\A w \in Tasks :
       /\ (wpc[w] = "rte_lookup" /\ wpc'[w] # "rte_lookup"
             /\ ~MessageIdTaken(wdata[w].message_id))
            => (rret'[w] = "false_none" /\ wpc'[w] = "idle"
                  /\ messages' = messages /\ nextReply' = nextReply)
       /\ (wpc[w] = "rte_send" /\ wpc'[w] # "rte_send" /\ nextReply' = nextReply)
            => (rret'[w] = "false_none" /\ wpc'[w] = "idle" /\ messages' = messages)]_vars

\* C17 witness: one reply_to_email call ended (False, None) because the send
\* failed and another because the message it names is not stored.
C17_Witness ==
  \E w1 \in Tasks, w2 \in Tasks :
    /\ wpc[w1] = "idle" /\ rret[w1] = "false_none" /\ MessageIdTaken(wdata[w1].message_id)
    /\ wpc[w2] = "idle" /\ rret[w2] = "false_none" /\ ~MessageIdTaken(wdata[w2].message_id)

\* the store accepts the writes of the inbound unit in slot w in this step
Accepted(w) ==
  /\ faults' = faults
  /\ ~JoinFails(wdata[w].recipients)
  /\ ~MessageIdTaken(wdata[w].message_id)

ThreadAddresses(t) ==
  UNION { {m.sender} \cup {m.recipients[i] : i \in DOMAIN m.recipients} :
          m \in {x \in messages : x.thread = t.id /\ ~x.is_sent_by_system} }

\* C19: once the inbound messages of a thread key have been processed, the
\* participant set of the Thread is the union of the sender and the recipients
\* of the messages persisted in that Thread.
C19_ParticipantsAreUnion ==
  \A t \in threads :
    (\A w \in Tasks : ~(wpc[w] \in {"pne_parts", "pne_save"} /\ wthr[w].id = t.id))
      => t.participants = ThreadAddresses(t)

\* C20: the thread id of a Thread never changes and no step removes an
\* address from its participant set.
C20_KeyFixedParticipantsGrow ==
  [][\A t \in threads :
       \E u \in threads' :
         /\ u.id = t.id /\ u.thread_id = t.thread_id
         /\ t.participants \subseteq u.participants]_vars

C22_UpdatedAtBumped ==
  [][/\ \A w \in Tasks :
          /\ (wpc[w] \in {"pne_parts", "pne_save"} /\ wpc'[w] # wpc[w] /\ messages' # messages)
               => \E t \in threads' : t.id = wthr[w].id /\ t.updated_at > wthr[w].updated_at
          /\ (wpc[w] = "rte_save" /\ wpc'[w] # wpc[w] /\ messages' # messages)
               => \E t \in threads, u \in threads' :
                    t.id = worig[w].thread /\ u.id = t.id /\ u.updated_at > t.updated_at
     /\ \A t \in threads, u \in threads' :
          (u.id = t.id /\ u.participants # t.participants) => u.updated_at > t.updated_at]_vars

\* C23: whatever the outcome of a tick (a batch processed, nothing fetched,
\* a fetch that failed, an exception raised by a callback), the loop task goes
\* on to sleep, and it fetches again only after a sleep: no exception ends the
\* task and no failure is retried at once.
C23_SleepAfterEveryTick ==
  [][\A t \in Tasks :
       /\ (lpc[t] = "check" /\ lpc'[t] # "check" /\ running) => lpc'[t] \in {"wait", "sleep"}
       /\ (lpc[t] = "wait" /\ lpc'[t] # "wait") => lpc'[t] = "sleep"
       /\ (lpc[t] # "check" /\ lpc'[t] = "check") => lpc[t] \in {"sleep", "none"}
       /\ (lpc[t] # "done" /\ lpc'[t] = "done") => (lpc[t] = "check" /\ ~running)]_vars

\* C23 witness: a loop task sleeps after the callback of its tick raised, and
\* an earlier fetch has returned messages.
C23_Witness ==
  \E t \in Tasks : lpc[t] = "sleep" /\ wret[t] = "raised" /\ returned # {}

\* C24: start() on a running monitor creates no task and leaves _running and
\* _task as they are; stop() on a stopped monitor changes nothing.
C24_StartStopIdempotent ==
  [][/\ (starts' = starts + 1 /\ running)
          => UNCHANGED <<running, task, nextTask, lpc, batch, spc, sawait>>
     /\ (stops' = stops + 1 /\ ~running)
          => UNCHANGED <<running, task, nextTask, lpc, batch, spc, sawait>>]_vars

\* C24 witness: start() was called twice and stop() twice while one loop task
\* was ever created.
C24_Witness == starts = 2 /\ stops = 2 /\ nextTask = 1 /\ ~running

\* C25: stop() on a running monitor returns only when no loop task that was
\* started before the call is inside a tick (its fetch and the callbacks of
\* its batch have finished).
C25_StopWaitsForTick ==
  [][/\ \A s \in 1..MaxStops :
          (spc[s] = "await" /\ spc'[s] = "done")
            => \A t \in 1..sawait[s] : lpc'[t] # "wait"
     /\ (stops' = stops + 1 /\ running /\ spc'[stops + 1] = "done")
          => \A t \in Tasks : lpc'[t] # "wait"]_vars

\* C26: the callback is invoked for a fetched message only when that message
\* is new: it is not invoked for a message whose message id is already stored.
C26_CallbackOnlyForNew ==
  [][\A t \in Tasks :
       (lpc'[t] = "wait" /\ wpc[t] = "idle" /\ wpc'[t] = "pne_exists")
         => ~MessageIdTaken(wdata'[t].message_id)]_vars

\* C27: a stored Message is never changed or removed by a later
\* process_new_email or reply_to_email call: every row, is_sent_by_system and
\* thread included, stays as it was created.
C27_MessagesImmutable ==
  [][\A m \in messages : m \in messages']_vars

\* C27 witness: an inbound message is stored next to the reply to it, and a
\* later reply_to_email call that names the reply has ended.
C27_Witness ==
  \E m \in messages, r \in messages, w \in Tasks :
    /\ ~m.is_sent_by_system /\ r.is_sent_by_system /\ r.in_reply_to = m.message_id
    /\ wpc[w] = "idle" /\ rret[w] \in {"true_msg", "false_none"}
    /\ wdata[w].message_id = r.message_id

\* the entries of a recipient list that are addresses
Addresses(recipients) ==
  {recipients[i] : i \in {j \in DOMAIN recipients : recipients[j] \notin {NULL, ""}}}

\* C28: a message with an empty recipient list is persisted and adds only its
\* sender to the participants of its Thread; None and "" entries of a
\* recipient list are never added to a participant set.
C28_EmptyRecipientsValid ==
  /\ [](\A t \in threads : NULL \notin t.participants /\ "" \notin t.participants)
  /\ [][\A w \in Tasks :
          /\ (wpc[w] = "pne_parts" /\ wpc'[w] # "pne_parts" /\ wdata[w].recipients # ABSENT
                /\ threads' # threads)
               => \E u \in threads' :
                    /\ u.id = wthr[w].id
                    /\ u.participants = wthr[w].participants \cup {wdata[w].sender}
                                          \cup Addresses(wdata[w].recipients)
          /\ (wpc[w] \in {"pne_parts", "pne_save"} /\ wpc'[w] \notin {"pne_parts", "pne_save"}
                /\ wdata[w].recipients = <<>> /\ Accepted(w))
               => /\ wret'[w] = "msg"
                  /\ \E m \in messages' : m \notin messages /\ m.recipients = <<>>
                  /\ \E t \in threads' :
                       t.id = wthr[w].id /\ wdata[w].sender \in t.participants]_vars

\* C28 witness: the message without recipients is stored and its Thread has
\* the sender as only participant, while the Thread of the messages whose
\* lists hold None and "" has the sender and the one address of each list.
C28_Witness ==
  /\ \E m \in messages, t \in threads :
       m.recipients = <<>> /\ m.thread = t.id /\ t.participants = {m.sender}
  /\ \E t \in threads : t.participants = {"carol@x", "bob@x", "dave@x"}

\* the recipient list holds a None entry, or the key is missing
BadRecipients(d) ==
  d.recipients = ABSENT \/ \E i \in DOMAIN d.recipients : d.recipients[i] = NULL

\* C29: process_new_email on email_data whose recipient list holds a None
\* entry, or that has no recipients key, returns None from its save and
\* persists no Message.
C29_NullRecipientRejected ==
  /\ [](\A m \in messages : ~BadRecipients(m))
  /\ [](\A w \in Tasks : BadRecipients(wdata[w]) => wret[w] # "msg")
  /\ [][\A w \in Tasks :
          (wpc[w] \in {"pne_parts", "pne_save"} /\ wpc'[w] \notin {"pne_parts", "pne_save"}
             /\ BadRecipients(wdata[w]))
            => (wret'[w] = "failed" /\ wpc'[w] = "idle" /\ messages' = messages)]_vars

\* C29 witness: two calls have returned None, one for the list with a None
\* entry and one for the missing key.
C29_Witness ==
  \E w1 \in Tasks, w2 \in Tasks :
    /\ wret[w1] = "failed" /\ wdata[w1].recipients = ABSENT
    /\ wret[w2] = "failed" /\ wdata[w2].recipients # ABSENT /\ BadRecipients(wdata[w2])

\* C30: process_new_email never raises to its caller: whatever fails inside,
\* it returns None.
C30_NeverRaises == \A w \in Tasks : wret[w] # "raised"

\* C37: whenever reply_to_email returns success = True, a Message with the
\* id of the reply is stored and is the second element of the result.
C37_SuccessHasRecord ==
  [][\A w \in Tasks :
       (wpc[w] = "rte_save" /\ wpc'[w] # "rte_save")
         => /\ rret'[w] = "true_msg"
            /\ \E m \in messages' : m.message_id = wreply[w] /\ m.is_sent_by_system]_vars

\* C38: the references stored on the persisted reply are the References header
\* of the reply that was sent, the appended id of the message replied to
\* included.
C38_StoredReferencesAreSent ==
  [][\A w \in Tasks :
       (wpc[w] = "rte_save" /\ wpc'[w] # "rte_save" /\ rret'[w] = "true_msg")
         => \E m \in messages', o \in outbox :
              /\ m.message_id = wreply[w] /\ o.message_id = wreply[w]
              /\ m.references = o.references]_vars

\* C39: the recipient list of a reply reply_to_email has built and sent holds
\* neither the address of the system nor one address twice.
C39_ReplyRecipientsClean ==
  \A o \in outbox :
    /\ \A i \in DOMAIN o.recipients : o.recipients[i] # OWN
    /\ \A i \in DOMAIN o.recipients, j \in DOMAIN o.recipients :
         o.recipients[i] = o.recipients[j] => i = j

\* C36: when two process_new_email calls for one message id have both passed
\* the existence check before either saves, one Message with that id is
\* stored, at most one of the calls returns a Message, and at most one reply
\* is triggered for the id.
C36_RaceOnSameId ==
  /\ [](\A w1 \in Tasks, w2 \in Tasks :
          (w1 # w2 /\ wdata[w1].message_id = wdata[w2].message_id /\ wret[w1] = "msg")
            => wret[w2] # "msg")
  /\ [](\A mid \in MessageIds : replyCalls[mid] <= 1)
  /\ [][\A w \in Tasks :
          (wpc[w] \in {"pne_parts", "pne_save"} /\ wpc'[w] \notin {"pne_parts", "pne_save"}
             /\ faults' = faults /\ ~JoinFails(wdata[w].recipients))
            => Cardinality({m \in messages' : m.message_id = wdata[w].message_id}) = 1]_vars

\* C36 witness: without any database fault, one call returned the Message and
\* the other call for the same id, which had passed the existence check too,
\* returned None from its save.
C36_Witness ==
  /\ faults = 0
  /\ \E w1 \in Tasks, w2 \in Tasks :
       /\ w1 # w2 /\ wdata[w1].message_id = wdata[w2].message_id
       /\ ~JoinFails(wdata[w1].recipients)
       /\ wret[w1] = "msg" /\ wret[w2] = "failed"
       /\ Cardinality({m \in messages : m.message_id = wdata[w1].message_id}) = 1

\* C35: when an inbound message m0 without References and In-Reply-To is
\* stored, an inbound message whose References header starts with the id of m0
\* is stored in the Thread of m0.
C35_ReplyJoinsOriginalThread ==
  \A m0 \in messages, m \in messages :
    (/\ ~m0.is_sent_by_system /\ ~m.is_sent_by_system
     /\ m0.references = <<>> /\ m0.in_reply_to = ""
     /\ m.references # <<>> /\ m.references[1] = m0.message_id)
      => m.thread = m0.thread

\* C31: when process_new_email raises inside process_email_callback, the
\* callback returns normally and the poll loop hands the next message of the
\* batch to the callback.
C31_CallbackSwallowsException ==
  [][\A t \in Tasks :
       (lpc[t] = "wait" /\ wpc[t] = "idle" /\ wret[t] = "raised"
          /\ Len(batch[t]) > 1 /\ batch'[t] # batch[t])
         => /\ lpc'[t] = "wait" /\ wpc'[t] = "pne_exists"
            /\ wdata'[t] = ParseEmail(RawMails[batch[t][2]])]_vars

\* C40: a stop() call on a running monitor returns, and when it returns the
\* loop task it waited for has ended, _running is False and _task is None,
\* whatever start() and stop() calls are interleaved with it.
C40_StopTerminates ==
  /\ [][\A s \in 1..MaxStops :
          (spc[s] = "await" /\ spc'[s] = "done")
            => (lpc'[sawait[s]] = "done" /\ ~running' /\ task' = 0)]_vars
  /\ \A s \in 1..MaxStops : (spc[s] = "await") ~> (spc[s] = "done")

\* C33: the subject of a Thread is the subject of the message that created
\* it, and no later message or reply stored in the Thread changes it.
C33_SubjectFixed ==
  /\ [][\A t \in threads : \E u \in threads' : u.id = t.id /\ u.subject = t.subject]_vars
  /\ [][\A w \in Tasks :
          (wpc[w] = "pne_create" /\ wpc'[w] = "pne_parts")
            => \E t \in threads' :
                 /\ t \notin threads /\ t.thread_id = wdata[w].thread_id
                 /\ t.subject = wdata[w].subject]_vars

\* C33 witness: a Thread created under one subject holds a later inbound
\* message with another subject, which added a participant, and a reply.
C33_Witness ==
  \E t \in threads, m \in messages, r \in messages :
    /\ m.thread = t.id /\ ~m.is_sent_by_system /\ m.subject # t.subject
    /\ r.thread = t.id /\ r.is_sent_by_system /\ r.subject # t.subject
    /\ t.updated_at >= 2

FirstPart(mail, ctype) ==
  LET ps == {i \in DOMAIN mail.parts :
               mail.parts[i].ctype = ctype /\ ~IsAttachment(mail.parts[i])}
  IN  IF ps = {} THEN 0 ELSE CHOOSE i \in ps : \A j \in ps : i <= j

\* C32: for a multipart message body_text is the decoded content of the first
\* text/plain part that is not an attachment and body_html that of the first
\* such text/html part; without such a part the field is the empty string.
C32_FirstPartIsBody ==
  (cpc = "parsed" /\ cmail.multipart)
    => /\ cbody.body_text = IF FirstPart(cmail, "text/plain") = 0 THEN <<>>
                            ELSE Decode(cmail.parts[FirstPart(cmail, "text/plain")].payload)
       /\ cbody.body_html = IF FirstPart(cmail, "text/html") = 0 THEN <<>>
                            ELSE Decode(cmail.parts[FirstPart(cmail, "text/html")].payload)

====
